---- MODULE Spec2Model ----
(***************************************************************************)
(* oponOK backend: users, cars and tyre inspections behind a FastAPI app.  *)
(* The store is the three tables of app/models.py; every action is one     *)
(* request handler of app/main.py.  `resp` is the response of the request  *)
(* that was served last.                                                   *)
(***************************************************************************)
EXTENDS Integers, FiniteSets, Sequences, Bags, TLC

VARIABLES users, cars, inspections, resp, now, issued, presented, procs

store == <<users, cars, inspections>>
vars == <<users, cars, inspections, resp, now, issued, presented, procs>>

----------------------------------------------------------------------------
(* Bounds of the model *)

MaxUsers == 2
MaxCars == 2
MaxInspections == 2
MaxDate == 2
MaxClock == 90
MaxTokens == 2
MaxProcs == 2
TickMinutes == 30
MaxMeanwhile == 2

(* Program constants *)

TokenMinutes == 60

UserIds == 1..MaxUsers
CarIds == 1..MaxCars
InspectionIds == 1..MaxInspections
Dates == 1..MaxDate

----------------------------------------------------------------------------
(* app/models.py *)

TyreCondition == {"good", "bad"}
UserRole == {"user", "admin"}

Emails == {"a@x.com", "b@x.com"}
Passwords == {"pw1", "pw2"}

(* CarCreate payloads *)
CarInputs ==
  { [make |-> "Fiat", model |-> "Panda", year |-> 2010, plate |-> "WA1"],
    [make |-> "Opel", model |-> "Astra", year |-> 2015, plate |-> "KR2"] }

Tyres(fl, fr, rl, rr) ==
  [frontLeft |-> fl, frontRight |-> fr, rearLeft |-> rl, rearRight |-> rr]

TyreInputs ==
  { Tyres("good", "good", "good", "good"),
    Tyres("bad", "good", "good", "good"),
    Tyres("good", "bad", "good", "good"),
    Tyres("good", "good", "bad", "good"),
    Tyres("good", "good", "good", "bad") }

(* InspectionCreate payloads: a date, four readings, no note *)
InspectionInputs ==
  { [date |-> d, notes |-> "none"] @@ t : d \in Dates, t \in TyreInputs }

(* The two payloads the specifications that do not read the readings use *)
PlainInspections ==
  { [date |-> 1, notes |-> "none"] @@ Tyres("good", "good", "good", "good"),
    [date |-> MaxDate, notes |-> "none"] @@ Tyres("bad", "good", "good", "good") }

(* Dropping a row from a table *)
Without(table, id) == [k \in DOMAIN table \ {id} |-> table[k]]

(* Primary keys the engine may hand out: any key not in use *)
FreeIds(table, ids) == ids \ DOMAIN table

(* The signature of a token: the key and the payload it was made from *)
Sign(key, sub, exp) == <<key, sub, exp>>

(* A request without an Authorization header, and one whose bearer string
   does not decode *)
NoToken == [kind |-> "none", sub |-> "", exp |-> 0, sig |-> Sign("", "", 0)]
Garbage == [kind |-> "garbage", sub |-> "", exp |-> 0, sig |-> Sign("", "", 0)]

NoResp == [op |-> "none", status |-> 0, caller |-> 0, target |-> 0, body |-> 0]

Reply(op, status, caller, target, body) ==
  [op |-> op, status |-> status, caller |-> caller, target |-> target, body |-> body]

----------------------------------------------------------------------------
(* The ownership check every car and inspection handler repeats *)

(* Mutant: the admin exemption is dropped *)
NotYourCar_OwnerOnly(current_user, car) == car.user_id /= current_user

NotYourCar(current_user, car) ==
  users[current_user].role /= "admin" /\ car.user_id /= current_user

(* Mutant: no cascade, the inspections of a deleted car stay *)
CarCascade_Keeps(car_ids) == inspections

(* relationship(..., cascade="all, delete-orphan") of Car.inspections: the
   inspections that stay when car_ids are the cars that stay *)
CarCascade(car_ids) ==
  [i \in {j \in DOMAIN inspections : inspections[j].car_id \in car_ids}
     |-> inspections[i]]

OwnedCars(user_id) == {c \in DOMAIN cars : cars[c].user_id = user_id}

(* relationship(..., cascade="all, delete-orphan") of User.cars *)
UserCascade(user_id) ==
  [c \in DOMAIN cars \ OwnedCars(user_id) |-> cars[c]]

----------------------------------------------------------------------------
(* Mutant: every caller is handed every car *)
list_cars_Unscoped(current_user) ==
  /\ resp' = Reply("list_cars", 200, current_user, 0,
                   {[id |-> c] @@ cars[c] : c \in DOMAIN cars})
  /\ UNCHANGED store

(* GET /cars *)

list_cars(current_user) ==
  /\ resp' = Reply("list_cars", 200, current_user, 0,
                   IF users[current_user].role = "admin"
                   THEN {[id |-> c] @@ cars[c] : c \in DOMAIN cars}
                   ELSE {[id |-> c] @@ cars[c] :
                           c \in {k \in DOMAIN cars : cars[k].user_id = current_user}})
  /\ UNCHANGED store

(* POST /cars *)

create_car(current_user, car) ==
  /\ \E id \in FreeIds(cars, CarIds) :
       /\ cars' = cars @@ (id :> ([user_id |-> current_user] @@ car))
       /\ resp' = Reply("create_car", 200, current_user, id, cars'[id])
  /\ UNCHANGED <<users, inspections>>

(* Mutant: the guard is applied before the car is resolved, so a plain user
   is refused a car that is not stored *)
get_car_GuardFirst(current_user, car_id) ==
  /\ resp' = IF /\ users[current_user].role /= "admin"
                /\ (car_id \notin DOMAIN cars \/ cars[car_id].user_id /= current_user)
             THEN Reply("get_car", 403, current_user, car_id, 0)
             ELSE IF car_id \notin DOMAIN cars
             THEN Reply("get_car", 404, current_user, car_id, 0)
             ELSE Reply("get_car", 200, current_user, car_id, cars[car_id])
  /\ UNCHANGED store

(* GET /cars/{car_id} *)

get_car(current_user, car_id) ==
  /\ resp' = IF car_id \notin DOMAIN cars
             THEN Reply("get_car", 404, current_user, car_id, 0)
             ELSE IF NotYourCar(current_user, cars[car_id])
             THEN Reply("get_car", 403, current_user, car_id, 0)
             ELSE Reply("get_car", 200, current_user, car_id, cars[car_id])
  /\ UNCHANGED store

(* Mutant: the update also writes the caller into user_id *)
update_car_TakesOwnership(current_user, car_id, car_in) ==
  IF car_id \notin DOMAIN cars
  THEN /\ resp' = Reply("update_car", 404, current_user, car_id, 0)
       /\ UNCHANGED store
  ELSE IF NotYourCar(current_user, cars[car_id])
  THEN /\ resp' = Reply("update_car", 403, current_user, car_id, 0)
       /\ UNCHANGED store
  ELSE /\ cars' = [cars EXCEPT ![car_id] = [user_id |-> current_user] @@ car_in @@ @]
       /\ resp' = Reply("update_car", 200, current_user, car_id, cars'[car_id])
       /\ UNCHANGED <<users, inspections>>

(* PUT /cars/{car_id} *)

update_car(current_user, car_id, car_in) ==
  IF car_id \notin DOMAIN cars
  THEN /\ resp' = Reply("update_car", 404, current_user, car_id, 0)
       /\ UNCHANGED store
  ELSE IF NotYourCar(current_user, cars[car_id])
  THEN /\ resp' = Reply("update_car", 403, current_user, car_id, 0)
       /\ UNCHANGED store
  ELSE /\ cars' = [cars EXCEPT ![car_id] = car_in @@ @]
       /\ resp' = Reply("update_car", 200, current_user, car_id, cars'[car_id])
       /\ UNCHANGED <<users, inspections>>

(* DELETE /cars/{car_id} *)

delete_car(current_user, car_id) ==
  IF car_id \notin DOMAIN cars
  THEN /\ resp' = Reply("delete_car", 404, current_user, car_id, 0)
       /\ UNCHANGED store
  ELSE IF NotYourCar(current_user, cars[car_id])
  THEN /\ resp' = Reply("delete_car", 403, current_user, car_id, 0)
       /\ UNCHANGED store
  ELSE /\ cars' = Without(cars, car_id)
       /\ inspections' = CarCascade(DOMAIN cars')
       /\ resp' = Reply("delete_car", 200, current_user, car_id, "deleted")
       /\ UNCHANGED users

(* GET /inspections/{car_id} *)

list_inspections(current_user, car_id) ==
  /\ resp' = IF car_id \notin DOMAIN cars
             THEN Reply("list_inspections", 404, current_user, car_id, 0)
             ELSE IF NotYourCar(current_user, cars[car_id])
             THEN Reply("list_inspections", 403, current_user, car_id, 0)
             ELSE Reply("list_inspections", 200, current_user, car_id,
                        {i \in DOMAIN inspections : inspections[i].car_id = car_id})
  /\ UNCHANGED store

(* POST /inspections/{car_id} *)

create_inspection(current_user, car_id, inspection) ==
  IF car_id \notin DOMAIN cars
  THEN /\ resp' = Reply("create_inspection", 404, current_user, car_id, 0)
       /\ UNCHANGED store
  ELSE IF NotYourCar(current_user, cars[car_id])
  THEN /\ resp' = Reply("create_inspection", 403, current_user, car_id, 0)
       /\ UNCHANGED store
  ELSE /\ \E id \in FreeIds(inspections, InspectionIds) :
            /\ inspections' = inspections @@ (id :> ([car_id |-> car_id] @@ inspection))
            /\ resp' = Reply("create_inspection", 200, current_user, car_id,
                             [id |-> id] @@ inspections'[id])
       /\ UNCHANGED <<users, cars>>

(* PUT /inspections/{inspection_id} *)

update_inspection(current_user, inspection_id, inspection_in) ==
  IF inspection_id \notin DOMAIN inspections
  THEN /\ resp' = Reply("update_inspection", 404, current_user, inspection_id, 0)
       /\ UNCHANGED store
  ELSE IF inspections[inspection_id].car_id \notin DOMAIN cars
  THEN /\ resp' = Reply("update_inspection", 404, current_user, inspection_id, 0)
       /\ UNCHANGED store
  ELSE IF NotYourCar(current_user, cars[inspections[inspection_id].car_id])
  THEN /\ resp' = Reply("update_inspection", 403, current_user, inspection_id, 0)
       /\ UNCHANGED store
  ELSE /\ inspections' = [inspections EXCEPT ![inspection_id] = inspection_in @@ @]
       /\ resp' = Reply("update_inspection", 200, current_user, inspection_id,
                        inspections'[inspection_id])
       /\ UNCHANGED <<users, cars>>

(* DELETE /inspections/{inspection_id} *)

delete_inspection(current_user, inspection_id) ==
  IF inspection_id \notin DOMAIN inspections
  THEN /\ resp' = Reply("delete_inspection", 404, current_user, inspection_id, 0)
       /\ UNCHANGED store
  ELSE IF inspections[inspection_id].car_id \notin DOMAIN cars
  THEN /\ resp' = Reply("delete_inspection", 404, current_user, inspection_id, 0)
       /\ UNCHANGED store
  ELSE IF NotYourCar(current_user, cars[inspections[inspection_id].car_id])
  THEN /\ resp' = Reply("delete_inspection", 403, current_user, inspection_id, 0)
       /\ UNCHANGED store
  ELSE /\ inspections' = Without(inspections, inspection_id)
       /\ resp' = Reply("delete_inspection", 200, current_user, inspection_id, "deleted")
       /\ UNCHANGED <<users, cars>>

----------------------------------------------------------------------------
(* GET /me *)

HasBadTyre(insp) ==
  \/ insp.frontLeft = "bad"
  \/ insp.frontRight = "bad"
  \/ insp.rearLeft = "bad"
  \/ insp.rearRight = "bad"

InspectionsOf(insps, car_id) == {i \in DOMAIN insps : insps[i].car_id = car_id}

(* Mutant: the order is ascending, so the oldest row comes first *)
LastCandidates_Oldest(insps, car_id) ==
  {i \in InspectionsOf(insps, car_id) :
     \A j \in InspectionsOf(insps, car_id) : insps[j].date >= insps[i].date}

(* order_by(Inspection.date.desc()).first(): a row of the greatest date; the
   query names no second key, so among rows of equal date the engine returns
   whichever it meets first *)
LastCandidates(insps, car_id) ==
  {i \in InspectionsOf(insps, car_id) :
     \A j \in InspectionsOf(insps, car_id) : insps[j].date <= insps[i].date}

(* One pass of the loop over the caller's cars: `last` for every car
   (0 where the car has no inspection) *)
LastChoices(insps, car_ids) ==
  {f \in [car_ids -> InspectionIds \cup {0}] :
     \A c \in car_ids :
       IF InspectionsOf(insps, c) = {} THEN f[c] = 0
       ELSE f[c] \in LastCandidates(insps, c)}

FailedCars(insps, car_ids, last) ==
  Cardinality({c \in car_ids : last[c] /= 0 /\ HasBadTyre(insps[last[c]])})

InspectionsTotal(insps, car_ids) ==
  IF car_ids /= {}
  THEN Cardinality({i \in DOMAIN insps : insps[i].car_id \in car_ids})
  ELSE 0

me(current_user) ==
  /\ \E last \in LastChoices(inspections, OwnedCars(current_user)) :
       resp' = Reply("me", 200, current_user, 0,
                     [cars_assigned |-> Cardinality(OwnedCars(current_user)),
                      inspections_total |->
                          InspectionsTotal(inspections, OwnedCars(current_user)),
                      failed_cars |->
                          FailedCars(inspections, OwnedCars(current_user), last)])
  /\ UNCHANGED store

----------------------------------------------------------------------------
(* app/auth.py: the credential store *)

hash_password(password, salt) == [salt |-> salt, digest |-> <<salt, password>>]

verify_password(password, password_hash) ==
  password_hash.digest = <<password_hash.salt, password>>

(* POST /register *)

register(user, salt) ==
  IF \E u \in DOMAIN users : users[u].email = user.email
  THEN /\ resp' = Reply("register", 400, 0, 0, "Email already in use")
       /\ UNCHANGED store
  ELSE /\ \E id \in FreeIds(users, UserIds) :
            /\ users' = users @@ (id :> [email |-> user.email, role |-> user.role,
                                         password_hash |->
                                             hash_password(user.password, salt)])
            /\ resp' = Reply("register", 200, 0, id,
                             [id |-> id, email |-> user.email, role |-> user.role])
       /\ UNCHANGED <<cars, inspections>>

(* A User row deleted through the ORM session: the cascade of User.cars and
   of Car.inspections removes what the user owned *)

delete_user(user_id) ==
  /\ user_id \in DOMAIN users
  /\ users' = Without(users, user_id)
  /\ cars' = UserCascade(user_id)
  /\ inspections' = CarCascade(DOMAIN cars')
  /\ resp' = Reply("delete_user", 0, 0, user_id, 0)

----------------------------------------------------------------------------
(* Requests served one at a time, each for a caller that get_current_user
   resolved to a stored user *)

Init ==
  /\ users = << >>
  /\ cars = << >>
  /\ inspections = << >>
  /\ resp = NoResp
  /\ now = 0
  /\ issued = {}
  /\ presented = NoToken
  /\ procs = EmptyBag

Served(request) == request /\ UNCHANGED <<now, issued, presented, procs>>

Next ==
  \/ Served(\E e \in Emails, r \in UserRole :
              register([email |-> e, role |-> r, password |-> "pw1"], 1))
  \/ Served(\E u \in DOMAIN users : delete_user(u))
  \/ Served(\E u \in DOMAIN users : list_cars(u))
  \/ Served(\E u \in DOMAIN users, car \in CarInputs : create_car(u, car))
  \/ Served(\E u \in DOMAIN users, c \in CarIds : get_car(u, c))
  \/ Served(\E u \in DOMAIN users, c \in CarIds, car \in CarInputs :
              update_car(u, c, car))
  \/ Served(\E u \in DOMAIN users, c \in CarIds : delete_car(u, c))
  \/ Served(\E u \in DOMAIN users, c \in CarIds : list_inspections(u, c))
  \/ Served(\E u \in DOMAIN users, c \in CarIds, insp \in PlainInspections :
              create_inspection(u, c, insp))
  \/ Served(\E u \in DOMAIN users, i \in InspectionIds, insp \in PlainInspections :
              update_inspection(u, i, insp))
  \/ Served(\E u \in DOMAIN users, i \in InspectionIds : delete_inspection(u, i))
  \/ Served(\E u \in DOMAIN users : me(u))

Spec == Init /\ [][Next]_vars

(* The requests that change what /me reads, and /me, with every date and
   every reading of TyreInputs *)

NextMe ==
  \/ Served(\E e \in Emails :
              register([email |-> e, role |-> "user", password |-> "pw1"], 1))
  \/ Served(\E u \in DOMAIN users : delete_user(u))
  \/ Served(\E u \in DOMAIN users, car \in {CHOOSE c \in CarInputs : TRUE} :
              create_car(u, car))
  \/ Served(\E u \in DOMAIN users, c \in DOMAIN cars : delete_car(u, c))
  \/ Served(\E u \in DOMAIN users, c \in DOMAIN cars, insp \in InspectionInputs :
              create_inspection(u, c, insp))
  \/ Served(\E u \in DOMAIN users, i \in DOMAIN inspections, insp \in InspectionInputs :
              update_inspection(u, i, insp))
  \/ Served(\E u \in DOMAIN users, i \in DOMAIN inspections : delete_inspection(u, i))
  \/ Served(\E u \in DOMAIN users : me(u))

SpecMe == Init /\ [][NextMe]_vars

----------------------------------------------------------------------------
(* app/auth.py: the token service and the identity resolver *)

SecretKey == "SECRET_KEY"

create_access_token(data, expires_delta) ==
  [kind |-> "jwt", sub |-> data.sub, exp |-> now + expires_delta,
   sig |-> Sign(SecretKey, data.sub, now + expires_delta)]

(* str(user.id), and the int() that reads it back; 0 where it is no id *)
Str(id) == ToString(id)

ParseId(sub) ==
  IF \E id \in UserIds : Str(id) = sub
  THEN CHOOSE id \in UserIds : Str(id) = sub
  ELSE 0

(* The subject of a token that verifies, "" otherwise: the signature must be
   the secret's over this payload and the expiry must not be in the past *)
verify_token(token) ==
  IF token.kind /= "jwt" THEN ""
  ELSE IF token.sig /= Sign(SecretKey, token.sub, token.exp) THEN ""
  ELSE IF token.exp < now THEN ""
  ELSE token.sub

(* The stored user a token resolves to, 0 where the request is answered 401 *)
get_current_user(token) ==
  IF verify_token(token) = "" THEN 0
  ELSE IF ParseId(verify_token(token)) \in DOMAIN users
  THEN ParseId(verify_token(token))
  ELSE 0

(* The stored user of these credentials, 0 where there is none *)
authenticate_user(email, password) ==
  IF \E u \in DOMAIN users :
       users[u].email = email /\ verify_password(password, users[u].password_hash)
  THEN CHOOSE u \in DOMAIN users :
         users[u].email = email /\ verify_password(password, users[u].password_hash)
  ELSE 0

(* Mutant: the token expires after half the time *)
login_HalfHour(data) ==
  IF authenticate_user(data.email, data.password) = 0
  THEN /\ resp' = Reply("login", 401, 0, 0, "Incorrect email or password")
       /\ UNCHANGED issued
  ELSE LET user == authenticate_user(data.email, data.password)
           access_token == create_access_token([sub |-> Str(user)], 30)
       IN /\ resp' = Reply("login", 200, 0, user,
                           [access_token |-> access_token, token_type |-> "bearer"])
          /\ issued' = issued \cup {[token |-> access_token, at |-> now, user |-> user]}

(* POST /login; `issued` remembers each token with the time and the user it
   was issued for *)

login(data) ==
  IF authenticate_user(data.email, data.password) = 0
  THEN /\ resp' = Reply("login", 401, 0, 0, "Incorrect email or password")
       /\ UNCHANGED issued
  ELSE LET user == authenticate_user(data.email, data.password)
           access_token == create_access_token([sub |-> Str(user)], TokenMinutes)
       IN /\ resp' = Reply("login", 200, 0, user,
                           [access_token |-> access_token, token_type |-> "bearer"])
          /\ issued' = issued \cup {[token |-> access_token, at |-> now, user |-> user]}

(* Depends(get_current_user) in front of a handler *)
Unauthenticated(op) ==
  /\ resp' = Reply(op, 401, 0, 0, 0)
  /\ UNCHANGED store

Authenticated(token) ==
  /\ presented' = token
  /\ UNCHANGED <<now, issued, procs>>

(* The wall clock *)
Tick ==
  /\ now + TickMinutes <= MaxClock
  /\ now' = now + TickMinutes
  /\ UNCHANGED <<store, resp, issued, presented, procs>>

(* Tokens a client can send: none, garbage, an issued token, an issued token
   with its subject or expiry rewritten, a token signed with another key *)
Presentable ==
  {NoToken, Garbage}
    \cup {i.token : i \in issued}
    \cup {[i.token EXCEPT !.sub = Str(u)] : i \in issued, u \in UserIds}
    \cup {[i.token EXCEPT !.exp = @ + TokenMinutes] : i \in issued}
    \cup {[kind |-> "jwt", sub |-> Str(u), exp |-> now + TokenMinutes,
           sig |-> Sign("OTHER_KEY", Str(u), now + TokenMinutes)] : u \in UserIds}

NextAuth ==
  \/ /\ \E e \in Emails :
          register([email |-> e, role |-> "user", password |-> "pw1"], 1)
     /\ UNCHANGED <<now, issued, presented, procs>>
  \/ /\ \E u \in DOMAIN users : delete_user(u)
     /\ UNCHANGED <<now, issued, presented, procs>>
  \/ /\ Cardinality(issued) < MaxTokens
     /\ \E e \in Emails, p \in Passwords : login([email |-> e, password |-> p])
     /\ UNCHANGED <<store, now, presented, procs>>
  \/ Tick
  \/ \E token \in Presentable :
       /\ Authenticated(token)
       /\ IF get_current_user(token) = 0
          THEN Unauthenticated("me")
          ELSE me(get_current_user(token))
  \/ \E token \in Presentable :
       /\ Authenticated(token)
       /\ IF get_current_user(token) = 0
          THEN Unauthenticated("create_car")
          ELSE create_car(get_current_user(token), CHOOSE c \in CarInputs : TRUE)
  \/ \E token \in Presentable, c \in CarIds :
       /\ Authenticated(token)
       /\ IF get_current_user(token) = 0
          THEN Unauthenticated("delete_car")
          ELSE delete_car(get_current_user(token), c)

SpecAuth == Init /\ [][NextAuth]_vars

----------------------------------------------------------------------------
(* Requests served by the worker threads at once.  A handler that writes is
   two steps: what it does up to its last query, and its db.commit().
   `procs` is the bag of the requests that are between the two. *)

Pending(op) == {p \in BagToSet(procs) : p.op = op}

InFlight(op) ==
  LET RECURSIVE Sum(_)
      Sum(S) == IF S = {} THEN 0
                ELSE LET p == CHOOSE q \in S : TRUE
                     IN CopiesIn(p, procs) + Sum(S \ {p})
  IN Sum(Pending(op))

Fork(p) == procs' = procs (+) SetToBag({p})
Join(p) == procs' = procs (-) SetToBag({p})

(* What the engine does with a declared constraint when a commit breaks it:
   the commit raises, the handler does not catch it, the reply is 500 *)
ForeignKeyHolds(parent, id) == id \in DOMAIN parent

UniqueHolds(email) == ~\E u \in DOMAIN users : users[u].email = email

(* register up to db.add *)
register_query(user, salt) ==
  /\ BagCardinality(procs) < MaxProcs
  /\ IF \E u \in DOMAIN users : users[u].email = user.email
     THEN /\ resp' = Reply("register", 400, 0, 0, "Email already in use")
          /\ UNCHANGED procs
     ELSE /\ Cardinality(DOMAIN users) + InFlight("register") < MaxUsers
          /\ Fork([op |-> "register", user |-> user, salt |-> salt])
          /\ UNCHANGED resp
  /\ UNCHANGED <<store, now, issued, presented>>

(* register: db.commit() and what follows *)
register_commit(p) ==
  /\ p.op = "register"
  /\ Join(p)
  /\ IF UniqueHolds(p.user.email)
     THEN /\ \E id \in FreeIds(users, UserIds) :
               /\ users' = users @@ (id :> [email |-> p.user.email,
                                            role |-> p.user.role,
                                            password_hash |->
                                              hash_password(p.user.password, p.salt)])
               /\ resp' = Reply("register", 200, 0, id,
                                [id |-> id, email |-> p.user.email,
                                 role |-> p.user.role])
     ELSE /\ resp' = Reply("register", 500, 0, 0, "IntegrityError")
          /\ UNCHANGED users
  /\ UNCHANGED <<cars, inspections, now, issued, presented>>

(* create_car up to db.add *)
create_car_query(current_user, car) ==
  /\ BagCardinality(procs) < MaxProcs
  /\ Cardinality(DOMAIN cars) + InFlight("create_car") < MaxCars
  /\ Fork([op |-> "create_car", caller |-> current_user, car |-> car])
  /\ UNCHANGED <<store, resp, now, issued, presented>>

create_car_commit(p) ==
  /\ p.op = "create_car"
  /\ Join(p)
  /\ IF ForeignKeyHolds(users, p.caller)
     THEN \E id \in FreeIds(cars, CarIds) :
            /\ cars' = cars @@ (id :> ([user_id |-> p.caller] @@ p.car))
            /\ resp' = Reply("create_car", 200, p.caller, id, cars'[id])
     ELSE /\ resp' = Reply("create_car", 500, p.caller, 0, "IntegrityError")
          /\ UNCHANGED cars
  /\ UNCHANGED <<users, inspections, now, issued, presented>>

(* create_inspection up to db.add *)
create_inspection_query(current_user, car_id, inspection) ==
  /\ BagCardinality(procs) < MaxProcs
  /\ IF car_id \notin DOMAIN cars
     THEN /\ resp' = Reply("create_inspection", 404, current_user, car_id, 0)
          /\ UNCHANGED procs
     ELSE IF NotYourCar(current_user, cars[car_id])
     THEN /\ resp' = Reply("create_inspection", 403, current_user, car_id, 0)
          /\ UNCHANGED procs
     ELSE /\ Cardinality(DOMAIN inspections) + InFlight("create_inspection")
               < MaxInspections
          /\ Fork([op |-> "create_inspection", caller |-> current_user,
                   target |-> car_id, inspection |-> inspection])
          /\ UNCHANGED resp
  /\ UNCHANGED <<store, now, issued, presented>>

create_inspection_commit(p) ==
  /\ p.op = "create_inspection"
  /\ Join(p)
  /\ IF ForeignKeyHolds(cars, p.target)
     THEN \E id \in FreeIds(inspections, InspectionIds) :
            /\ inspections' =
                 inspections @@ (id :> ([car_id |-> p.target] @@ p.inspection))
            /\ resp' = Reply("create_inspection", 200, p.caller, p.target,
                             [id |-> id] @@ inspections'[id])
     ELSE /\ resp' = Reply("create_inspection", 500, p.caller, p.target,
                           "IntegrityError")
          /\ UNCHANGED inspections
  /\ UNCHANGED <<users, cars, now, issued, presented>>

(* delete_car up to db.delete *)
delete_car_query(current_user, car_id) ==
  /\ BagCardinality(procs) < MaxProcs
  /\ IF car_id \notin DOMAIN cars
     THEN /\ resp' = Reply("delete_car", 404, current_user, car_id, 0)
          /\ UNCHANGED procs
     ELSE IF NotYourCar(current_user, cars[car_id])
     THEN /\ resp' = Reply("delete_car", 403, current_user, car_id, 0)
          /\ UNCHANGED procs
     ELSE /\ Fork([op |-> "delete_car", caller |-> current_user, target |-> car_id])
          /\ UNCHANGED resp
  /\ UNCHANGED <<store, now, issued, presented>>

(* delete_car: the flush deletes the car's inspections and the car; a row
   that is gone by then matches nothing *)
delete_car_commit(p) ==
  /\ p.op = "delete_car"
  /\ Join(p)
  /\ cars' = Without(cars, p.target)
  /\ inspections' = CarCascade(DOMAIN cars')
  /\ resp' = Reply("delete_car", 200, p.caller, p.target, "deleted")
  /\ UNCHANGED <<users, now, issued, presented>>

(* delete_inspection up to db.delete *)
delete_inspection_query(current_user, inspection_id) ==
  /\ BagCardinality(procs) < MaxProcs
  /\ IF inspection_id \notin DOMAIN inspections
     THEN /\ resp' = Reply("delete_inspection", 404, current_user, inspection_id, 0)
          /\ UNCHANGED procs
     ELSE IF inspections[inspection_id].car_id \notin DOMAIN cars
     THEN /\ resp' = Reply("delete_inspection", 404, current_user, inspection_id, 0)
          /\ UNCHANGED procs
     ELSE IF NotYourCar(current_user, cars[inspections[inspection_id].car_id])
     THEN /\ resp' = Reply("delete_inspection", 403, current_user, inspection_id, 0)
          /\ UNCHANGED procs
     ELSE /\ Fork([op |-> "delete_inspection", caller |-> current_user,
                   target |-> inspection_id])
          /\ UNCHANGED resp
  /\ UNCHANGED <<store, now, issued, presented>>

delete_inspection_commit(p) ==
  /\ p.op = "delete_inspection"
  /\ Join(p)
  /\ inspections' = Without(inspections, p.target)
  /\ resp' = Reply("delete_inspection", 200, p.caller, p.target, "deleted")
  /\ UNCHANGED <<users, cars, now, issued, presented>>

OneCar == CHOOSE c \in CarInputs : TRUE
OneInspection == CHOOSE i \in PlainInspections : TRUE

NextConc ==
  \/ \E e \in Emails :
       register_query([email |-> e, role |-> "user", password |-> "pw1"], 1)
  \/ \E p \in BagToSet(procs) : register_commit(p)
  \/ \E u \in DOMAIN users : create_car_query(u, OneCar)
  \/ \E p \in BagToSet(procs) : create_car_commit(p)
  \/ \E u \in DOMAIN users, c \in CarIds : create_inspection_query(u, c, OneInspection)
  \/ \E p \in BagToSet(procs) : create_inspection_commit(p)
  \/ \E u \in DOMAIN users, c \in CarIds : delete_car_query(u, c)
  \/ \E p \in BagToSet(procs) : delete_car_commit(p)
  \/ \E u \in DOMAIN users, i \in InspectionIds : delete_inspection_query(u, i)
  \/ \E p \in BagToSet(procs) : delete_inspection_commit(p)
  \/ /\ \E u \in DOMAIN users : delete_user(u)
     /\ UNCHANGED <<now, issued, presented, procs>>

SpecConc == Init /\ [][NextConc]_vars

----------------------------------------------------------------------------
(* /me statement by statement, while other requests commit.  The session
   holds no snapshot: each query of me reads the rows committed when it
   runs. *)

SessionRead(table) == table

(* The aggregates that are true of the stored cars and inspections of a user
   (failed_cars ranges over the rows a date tie admits) *)
Aggregates(cs, insps, user_id) ==
  LET owned == {c \in DOMAIN cs : cs[c].user_id = user_id}
      ofCar(c) == {i \in DOMAIN insps : insps[i].car_id = c}
      newest(c) == {i \in ofCar(c) :
                      \A j \in ofCar(c) : insps[j].date <= insps[i].date}
      bad(i) == "bad" \in {insps[i].frontLeft, insps[i].frontRight,
                           insps[i].rearLeft, insps[i].rearRight}
      least == Cardinality({c \in owned : newest(c) /= {} /\ \A i \in newest(c) : bad(i)})
      most == Cardinality({c \in owned : \E i \in newest(c) : bad(i)})
  IN {[cars_assigned |-> Cardinality(owned),
       inspections_total |->
           Cardinality({i \in DOMAIN insps : insps[i].car_id \in owned}),
       failed_cars |-> n] : n \in least..most}

(* me: cars_q.all() and len(cars) *)
me_cars(current_user) ==
  /\ procs = EmptyBag
  /\ LET found == {c \in DOMAIN SessionRead(cars) :
                     SessionRead(cars)[c].user_id = current_user}
     IN Fork([op |-> "me", pc |-> "count", caller |-> current_user,
              cars |-> found, cars_assigned |-> Cardinality(found),
              inspections_total |-> 0, failed_cars |-> 0, todo |-> found,
              commits |-> 0,
              seen |-> Aggregates(cars, inspections, current_user)])
  /\ UNCHANGED <<store, resp, now, issued, presented>>

(* me: the count of the inspections of those cars *)
me_count(p) ==
  /\ p.op = "me" /\ p.pc = "count"
  /\ procs' = SetToBag({[p EXCEPT
                 !.inspections_total = InspectionsTotal(SessionRead(inspections), p.cars),
                 !.pc = IF p.todo = {} THEN "return" ELSE "last"]})
  /\ UNCHANGED <<store, resp, now, issued, presented>>

(* me: one turn of the loop, the latest inspection of one car *)
me_last(p) ==
  /\ p.op = "me" /\ p.pc = "last"
  /\ \E car \in p.todo :
       \E last \in LastChoices(SessionRead(inspections), {car}) :
         procs' = SetToBag({[p EXCEPT
                    !.failed_cars =
                        @ + FailedCars(SessionRead(inspections), {car}, last),
                    !.todo = @ \ {car},
                    !.pc = IF p.todo = {car} THEN "return" ELSE "last"]})
  /\ UNCHANGED <<store, resp, now, issued, presented>>

(* me: the response *)
me_return(p) ==
  /\ p.op = "me" /\ p.pc = "return"
  /\ Join(p)
  /\ resp' = Reply("me", 200, p.caller, 0,
                   [cars_assigned |-> p.cars_assigned,
                    inspections_total |-> p.inspections_total,
                    failed_cars |-> p.failed_cars])
  /\ UNCHANGED <<store, now, issued, presented>>

(* Another request commits while me is between two queries; the me in
   flight notes the aggregates of the store it leaves *)
Meanwhile(request) ==
  /\ \A p \in BagToSet(procs) : p.commits < MaxMeanwhile
  /\ request
  /\ procs' = IF procs = EmptyBag THEN procs
              ELSE LET p == CHOOSE q \in BagToSet(procs) : TRUE
                   IN SetToBag({[p EXCEPT
                        !.seen = @ \cup Aggregates(cars', inspections', p.caller),
                        !.commits = @ + 1]})
  /\ UNCHANGED <<now, issued, presented>>

NextMeConc ==
  \/ Meanwhile(register([email |-> "a@x.com", role |-> "user", password |-> "pw1"], 1))
  \/ Meanwhile(\E u \in DOMAIN users : create_car(u, OneCar))
  \/ Meanwhile(\E u \in DOMAIN users, c \in DOMAIN cars : delete_car(u, c))
  \/ Meanwhile(\E u \in DOMAIN users, c \in DOMAIN cars, insp \in PlainInspections :
                 create_inspection(u, c, insp))
  \/ Meanwhile(\E u \in DOMAIN users, i \in DOMAIN inspections :
                 delete_inspection(u, i))
  \/ \E u \in DOMAIN users : me_cars(u)
  \/ \E p \in BagToSet(procs) : me_count(p)
  \/ \E p \in BagToSet(procs) : me_last(p)
  \/ \E p \in BagToSet(procs) : me_return(p)

SpecMeConc == Init /\ [][NextMeConc]_vars

----------------------------------------------------------------------------
(* Properties of the guarded handlers, under Spec *)

CarKeyed == {"get_car", "update_car", "delete_car", "list_inspections",
             "create_inspection"}
InspectionKeyed == {"update_inspection", "delete_inspection"}
Guarded == CarKeyed \cup InspectionKeyed

(* A reply of a guarded handler that this step produced *)
Answered(r) == r /= resp /\ r.op \in Guarded

(* The resource the request named, in the state the request found *)
Exists(r) ==
  IF r.op \in CarKeyed
  THEN r.target \in DOMAIN cars
  ELSE /\ r.target \in DOMAIN inspections
       /\ inspections[r.target].car_id \in DOMAIN cars

OwnerOf(r) ==
  IF r.op \in CarKeyed
  THEN cars[r.target].user_id
  ELSE cars[inspections[r.target].car_id].user_id

(* The rule of the authorization guard *)
canAccess(identity, resourceOwnerId) ==
  users[identity].role = "admin" \/ identity = resourceOwnerId

(* C1: a guarded request on an existing car or inspection succeeds exactly
   when the caller is an admin or owns the car (the inspection's car); a
   caller who is neither gets 403 and cars and inspections stay as they were *)
C1_OwnerOrAdmin ==
  [][(Answered(resp') /\ Exists(resp')) =>
       /\ (resp'.status = 200) <=> canAccess(resp'.caller, OwnerOf(resp'))
       /\ ~canAccess(resp'.caller, OwnerOf(resp')) =>
            (resp'.status = 403 /\ cars' = cars /\ inspections' = inspections)]_vars

(* C1 witness: a user who is neither admin nor owner was refused the update
   of an inspection that is stored *)
C1_Witness ==
  /\ resp.op = "update_inspection"
  /\ resp.status = 403
  /\ resp.target \in DOMAIN inspections
  /\ users[resp.caller].role = "user"
  /\ cars[inspections[resp.target].car_id].user_id /= resp.caller

(* C2: a guarded request that names a car or inspection not in the store is
   answered 404 whoever asks, and 403 is answered only for a stored resource
   the caller may not access *)
C2_NotFoundBeforeForbidden ==
  [][Answered(resp') =>
       /\ ~Exists(resp') => resp'.status = 404
       /\ resp'.status = 404 => ~Exists(resp')
       /\ resp'.status = 403 =>
            (Exists(resp') /\ ~canAccess(resp'.caller, OwnerOf(resp')))]_vars

(* C2 witness: a plain user asked to delete a car that is not stored, while
   another car is, and got 404 *)
C2_Witness ==
  /\ resp.op = "delete_car"
  /\ resp.status = 404
  /\ resp.target \notin DOMAIN cars
  /\ DOMAIN cars /= {}
  /\ users[resp.caller].role = "user"

(* C6: list_cars returns exactly the stored cars the authorization rule lets
   the caller access *)
C6_ListIsGuardedFilter ==
  resp.op = "list_cars" =>
    resp.body = {[id |-> c] @@ cars[c] :
                   c \in {k \in DOMAIN cars : canAccess(resp.caller, cars[k].user_id)}}

(* C6 witness: a plain user listed cars while owning one of the two stored *)
C6_Witness ==
  /\ resp.op = "list_cars"
  /\ users[resp.caller].role = "user"
  /\ Cardinality(resp.body) = 1
  /\ Cardinality(DOMAIN cars) = 2

(* C9: create_car stores the caller as the owner of the new car, and no step
   changes the user_id of a stored car or the car_id of a stored inspection *)
C9_OwnershipFixed ==
  [][/\ \A c \in DOMAIN cars \cap DOMAIN cars' : cars'[c].user_id = cars[c].user_id
     /\ \A i \in DOMAIN inspections \cap DOMAIN inspections' :
          inspections'[i].car_id = inspections[i].car_id
     /\ (resp' /= resp /\ resp'.op = "create_car") =>
          /\ resp'.target \notin DOMAIN cars
          /\ DOMAIN cars' = DOMAIN cars \cup {resp'.target}
          /\ cars'[resp'.target].user_id = resp'.caller]_vars

(* C9 witness: an admin updated a car of another user, which that user
   still owns *)
C9_Witness ==
  /\ resp.op = "update_car"
  /\ resp.status = 200
  /\ users[resp.caller].role = "admin"
  /\ cars[resp.target].user_id /= resp.caller

----------------------------------------------------------------------------
(* Properties of /me, under SpecMe *)

(* The inspections of a car that no inspection of that car is later than *)
Newest(car_id) ==
  {i \in DOMAIN inspections :
     /\ inspections[i].car_id = car_id
     /\ ~\E j \in DOMAIN inspections :
           inspections[j].car_id = car_id /\ inspections[j].date > inspections[i].date}

Failing(i) ==
  "bad" \in {inspections[i].frontLeft, inspections[i].frontRight,
             inspections[i].rearLeft, inspections[i].rearRight}

Owned(u) == {c \in DOMAIN cars : cars[c].user_id = u}

(* Every owned car has at most one inspection of its greatest date *)
NoDateTie(u) == \A c \in Owned(u) : Cardinality(Newest(c)) <= 1

(* C4: failed_cars of /me is the number of the caller's cars that have an
   inspection and whose inspection of the greatest date has a bad reading;
   where several inspections share the greatest date the car counts as one
   of them says.  A car without inspections is never counted, and a later
   inspection without a bad reading takes the car out of the count *)
C4_FailedCarsIsLatest ==
  resp.op = "me" =>
    /\ NoDateTie(resp.caller) =>
         resp.body.failed_cars =
           Cardinality({c \in Owned(resp.caller) : \E i \in Newest(c) : Failing(i)})
    /\ resp.body.failed_cars >=
         Cardinality({c \in Owned(resp.caller) :
                        Newest(c) /= {} /\ \A i \in Newest(c) : Failing(i)})
    /\ resp.body.failed_cars <=
         Cardinality({c \in Owned(resp.caller) : \E i \in Newest(c) : Failing(i)})

(* C4 witness: /me reported no failed car for a user whose only car has an
   earlier inspection with a bad tyre and a later one with none *)
C4_Witness ==
  /\ resp.op = "me"
  /\ resp.body.failed_cars = 0
  /\ resp.body.cars_assigned = 1
  /\ \E c \in Owned(resp.caller) :
       \E i \in DOMAIN inspections, j \in DOMAIN inspections :
         /\ inspections[i].car_id = c /\ inspections[j].car_id = c
         /\ inspections[i].date < inspections[j].date
         /\ Failing(i) /\ ~Failing(j)

(* C8: two /me calls of one user on the same stored cars and inspections
   return the same failed_cars, also when inspections share the greatest
   date *)
C8_SameDataSameAnswer ==
  [][(/\ resp.op = "me" /\ resp'.op = "me"
      /\ resp'.caller = resp.caller
      /\ store' = store)
       => resp'.body.failed_cars = resp.body.failed_cars]_vars

----------------------------------------------------------------------------
(* Properties of the authenticated requests, under SpecAuth *)

Protected == {"me", "create_car", "delete_car"}

(* A step that served a protected request *)
ProtectedStep ==
  resp'.op \in Protected /\ (resp' /= resp \/ presented' /= presented)

(* C3 as stated: a protected request runs under identity u exactly when its
   token is one login issued for u, less than 60 minutes have passed since,
   and u is stored; any other request is answered 401 and neither reads nor
   writes cars or inspections *)
C3_ValidBeforeExpiry ==
  [][ProtectedStep =>
       /\ \A u \in UserIds :
            (resp'.status /= 401 /\ resp'.caller = u)
              <=> /\ u \in DOMAIN users
                  /\ \E i \in issued :
                       /\ i.token = presented' /\ i.user = u
                       /\ now < i.at + TokenMinutes
       /\ resp'.status = 401 => (store' = store /\ resp'.body = 0)
       /\ resp'.status /= 401 => resp'.caller \in UserIds]_vars

(* C3 amended: the same, with the token still accepted at the minute of its
   expiry: it is refused once more than 60 minutes have passed *)
C3_ValidUntilExpiry ==
  [][ProtectedStep =>
       /\ \A u \in UserIds :
            (resp'.status /= 401 /\ resp'.caller = u)
              <=> /\ u \in DOMAIN users
                  /\ \E i \in issued :
                       /\ i.token = presented' /\ i.user = u
                       /\ now <= i.at + TokenMinutes
       /\ resp'.status = 401 => (store' = store /\ resp'.body = 0)
       /\ resp'.status /= 401 => resp'.caller \in UserIds]_vars

(* C3 witness: a token login issued, presented after its expiry by a user
   who is still stored, was answered 401 *)
C3_Witness ==
  /\ resp.op \in Protected
  /\ resp.status = 401
  /\ \E i \in issued :
       /\ i.token = presented
       /\ i.user \in DOMAIN users
       /\ now > i.at + TokenMinutes

----------------------------------------------------------------------------
(* Properties of the interleaved requests, under SpecConc *)

(* C5: a register call for an email a stored user has is answered 400 and
   leaves the users as they were; whatever the interleaving, no two stored
   users share an email and a register call that is not served is answered
   400, not another error *)
C5_DuplicateEmailIs400 ==
  [][(resp' /= resp /\ resp'.op = "register") =>
       /\ resp'.status \in {200, 400}
       /\ resp'.status /= 200 => users' = users
       /\ \A u \in DOMAIN users', v \in DOMAIN users' :
            u /= v => users'[u].email /= users'[v].email]_vars

(* C7: every stored inspection belongs to a stored car and every stored car
   to a stored user, whatever the interleaving of the requests and of the
   deletion of users *)
C7_NoOrphans ==
  /\ \A i \in DOMAIN inspections : inspections[i].car_id \in DOMAIN cars
  /\ \A c \in DOMAIN cars : cars[c].user_id \in DOMAIN users

(* C7 witness: a create_inspection that had passed its checks committed
   after its car was deleted, and another inspection is stored *)
C7_Witness ==
  /\ resp.op = "create_inspection"
  /\ resp.status = 500
  /\ resp.target \notin DOMAIN cars
  /\ DOMAIN inspections /= {}

----------------------------------------------------------------------------
(* Properties of /me among other requests, under SpecMeConc *)

(* C10: the three aggregates a /me request is about to return are those of
   one state the store was in between the start and the end of the request *)
C10_OneStoreState ==
  \A p \in BagToSet(procs) :
    (p.op = "me" /\ p.pc = "return") =>
      [cars_assigned |-> p.cars_assigned,
       inspections_total |-> p.inspections_total,
       failed_cars |-> p.failed_cars] \in p.seen

====
